---- MODULE Spec2Model ----
(***************************************************************************)
(* EEZ boundary-relation engine of the NAAV SAATHI App component.          *)
(*                                                                         *)
(* Coordinates are integers in units of 1/Scale degree.  A React state     *)
(* value is a variable; an asynchronous callback carries the render        *)
(* closure it was created in (the eezData value that render saw).          *)
(***************************************************************************)
EXTENDS Integers, Sequences, FiniteSets, TLC

\* ------------------------------------------------------------- bounds
\* Math.random() used for a coordinate is drawn from {k/PointDen : 0 <= k < PointDen}
PointDen == 1
\* Math.random() used for the coin and for the region index: {k/ChoiceDen}
ChoiceDen == 4

\* marine requests the model lets the timer callback start
MaxMarineRequests == 2
\* clock ticks that make up the 600 ms of the debounce timer
DebounceTicks == 2

\* grid units per degree (so that every sampled coordinate is an integer)
Scale == PointDen

\* ------------------------------------------------------------- values
\* JS null in a numeric slot (pos.lon, pos.lat, distToCoast)
NULL == -1000000
\* JS null in a string slot (alertMsg)
NoAlert == "null"
\* parseFloat of an input that is not a number
NaN == -2000000

Deg(d) == d * Scale
Pt(lonDeg, latDeg) == <<Deg(lonDeg), Deg(latDeg)>>

centerDefault == Pt(85, 12)
fallbackPoint == Pt(70, 15)

\* useState initial values
InitPos == [lon |-> NULL, lat |-> NULL]
InitSafety == [label |-> "Loading location...", cls |-> "warn"]

\* A closed ring around the rectangle [x0,x1] x [y0,y1] (degrees)
RectRing(x0, y0, x1, y1) ==
  << Pt(x0, y0), Pt(x1, y0), Pt(x1, y1), Pt(x0, y1), Pt(x0, y0) >>

\* eezData is null until the fetch resolves, then the parsed GeoJSON.  The
\* state holds the name of the document; the documents
\* /data/eez_india.geojson may hold are: no feature, a polygon without a
\* hole, a polygon with a hole around the fallback coordinate.
EezNull == "null"
EezDocuments == { "empty", "polygon", "holed" }
OuterRing == RectRing(62, 4, 90, 24)
HoleRing == RectRing(69, 14, 72, 17)
\* Documents the fetch may also resolve with (res.json() accepts any JSON):
\* a polygon whose ring has 3 positions, and one whose ring of 4 positions
\* does not end where it starts.
MalformedDocuments == { "short", "open" }
ShortRing == << Pt(62, 4), Pt(90, 24), Pt(62, 4) >>
UnclosedRing == SubSeq(OuterRing, 1, 4)
Features(fc) ==
  CASE fc = "polygon" -> << [rings |-> <<OuterRing>>] >>
    [] fc = "holed" -> << [rings |-> <<OuterRing, HoleRing>>] >>
    [] fc = "short" -> << [rings |-> <<ShortRing>>] >>
    [] fc = "open" -> << [rings |-> <<UnclosedRing>>] >>
    [] OTHER -> <<>>

\* the oceanRegions catalog: bbox in degrees, and the insideEEZ tag
oceanRegions ==
  << [bbox |-> <<68, 10, 75, 22>>, insideEEZ |-> TRUE],
     [bbox |-> <<60, 10, 68, 22>>, insideEEZ |-> FALSE],
     [bbox |-> <<82, 10, 88, 22>>, insideEEZ |-> TRUE],
     [bbox |-> <<88, 10, 95, 22>>, insideEEZ |-> FALSE],
     [bbox |-> <<75, 6, 85, 10>>, insideEEZ |-> TRUE],
     [bbox |-> <<75, 2, 85, 6>>, insideEEZ |-> FALSE],
     [bbox |-> <<92, 8, 98, 14>>, insideEEZ |-> TRUE],
     [bbox |-> <<98, 8, 104, 14>>, insideEEZ |-> FALSE] >>

\* positions the geolocation sensor may report
GeoPoints == { Pt(80, 12), Pt(50, 12) }
\* what parseFloat(e.target.value) may give in the two number inputs
ManualLats == { NaN, Deg(15) }
ManualLons == { NaN, Deg(50) }

\* ------------------------------------------------------------- geometry
Min(a, b) == IF a < b THEN a ELSE b
Max(a, b) == IF a > b THEN a ELSE b

\* turf.point([lon, lat]) throws unless both coordinates are numbers
isNumber(x) == x # NULL /\ x # NaN
ValidPoint(lon, lat) == isNumber(lon) /\ isNumber(lat)

\* turf's inRing: drops the closing point, returns !ignoreBoundary for a point
\* on an edge, else the parity of the edge crossings of a ray
OpenRing(ring) ==
  IF Len(ring) > 0 /\ ring[1] = ring[Len(ring)]
  THEN SubSeq(ring, 1, Len(ring) - 1)
  ELSE ring

inRing(pt, ring0, ignoreBoundary) ==
  LET ring == OpenRing(ring0)
      n == Len(ring)
      J(i) == IF i = 1 THEN n ELSE i - 1
      xi(i) == ring[i][1]
      yi(i) == ring[i][2]
      xj(i) == ring[J(i)][1]
      yj(i) == ring[J(i)][2]
      onBoundary(i) ==
        /\ pt[2] * (xi(i) - xj(i)) + yi(i) * (xj(i) - pt[1])
             + yj(i) * (pt[1] - xi(i)) = 0
        /\ (xi(i) - pt[1]) * (xj(i) - pt[1]) <= 0
        /\ (yi(i) - pt[2]) * (yj(i) - pt[2]) <= 0
      \* pt.x < (xj - xi) * (pt.y - yi) / (yj - yi) + xi, without the division
      intersect(i) ==
        /\ (yi(i) > pt[2]) # (yj(i) > pt[2])
        /\ LET d == yj(i) - yi(i)
               l == (pt[1] - xi(i)) * d
               r == (xj(i) - xi(i)) * (pt[2] - yi(i))
           IN IF d > 0 THEN l < r ELSE l > r
  IN IF \E i \in 1..n : onBoundary(i)
     THEN ~ignoreBoundary
     ELSE Cardinality({ i \in 1..n : intersect(i) }) % 2 = 1

\* insidePolygon = turf.booleanPointInPolygon(point, feature): in the outer
\* ring (edge counts as inside) and in no hole (edge of a hole is not in it)
insidePolygon(pt, feature) ==
  /\ inRing(pt, feature.rings[1], FALSE)
  /\ \A k \in 2..Len(feature.rings) : ~inRing(pt, feature.rings[k], TRUE)

\* updateDistanceToEEZ's polygonToLine + nearestPointOnLine + distance, on the
\* planar grid: the squared distance from pt to the nearest point of any ring
\* of the feature (polygonToLine keeps every ring).  Exact for the
\* axis-parallel segments of the documents above.
SegDist2(pt, a, b) ==
  LET dx == IF pt[1] < Min(a[1], b[1]) THEN Min(a[1], b[1]) - pt[1]
            ELSE IF pt[1] > Max(a[1], b[1]) THEN pt[1] - Max(a[1], b[1]) ELSE 0
      dy == IF pt[2] < Min(a[2], b[2]) THEN Min(a[2], b[2]) - pt[2]
            ELSE IF pt[2] > Max(a[2], b[2]) THEN pt[2] - Max(a[2], b[2]) ELSE 0
  IN dx * dx + dy * dy

RECURSIVE MinOver(_, _)
MinOver(S, best) ==
  IF S = {} THEN best
  ELSE LET x == CHOOSE y \in S : TRUE
       IN MinOver(S \ {x}, IF best = NULL \/ x < best THEN x ELSE best)

boundaryDist2(pt, feature) ==
  MinOver(UNION { { SegDist2(pt, feature.rings[k][i], feature.rings[k][i + 1]) :
                      i \in 1..(Len(feature.rings[k]) - 1) } :
                    k \in 1..Len(feature.rings) },
          NULL)

\* featureCollection && featureCollection.features?.length
BoundaryLoaded(fc) == fc # EezNull /\ Len(Features(fc)) > 0

\* Every coordinate a position can take: the sampler's draws, the fixed
\* coordinates, the sensor's reports and the typed values
Lons ==
  { Deg(oceanRegions[r].bbox[1]) + k * (oceanRegions[r].bbox[3] - oceanRegions[r].bbox[1]) :
      r \in 1..Len(oceanRegions), k \in 0..(PointDen - 1) }
    \cup { centerDefault[1], fallbackPoint[1] }
    \cup { g[1] : g \in GeoPoints } \cup (ManualLons \ {NaN})
Lats ==
  { Deg(oceanRegions[r].bbox[2]) + k * (oceanRegions[r].bbox[4] - oceanRegions[r].bbox[2]) :
      r \in 1..Len(oceanRegions), k \in 0..(PointDen - 1) }
    \cup { centerDefault[2], fallbackPoint[2] }
    \cup { g[2] : g \in GeoPoints } \cup (ManualLats \ {NaN})

\* insidePolygon and boundaryDist2 against the primary feature (features[0])
\* of each document that has one, evaluated once per point
RECURSIVE insideRow(_, _, _)
insideRow(fc, lon, lats) ==
  IF lats = {} THEN <<>>
  ELSE LET y == CHOOSE v \in lats : TRUE
       IN (y :> insidePolygon(<<lon, y>>, Features(fc)[1])) @@ insideRow(fc, lon, lats \ {y})
RECURSIVE insideRows(_, _)
insideRows(fc, lons) ==
  IF lons = {} THEN <<>>
  ELSE LET x == CHOOSE v \in lons : TRUE
       IN (x :> insideRow(fc, x, Lats)) @@ insideRows(fc, lons \ {x})
RECURSIVE distRow(_, _, _)
distRow(fc, lon, lats) ==
  IF lats = {} THEN <<>>
  ELSE LET y == CHOOSE v \in lats : TRUE
       IN (y :> boundaryDist2(<<lon, y>>, Features(fc)[1])) @@ distRow(fc, lon, lats \ {y})
RECURSIVE distRows(_, _)
distRows(fc, lons) ==
  IF lons = {} THEN <<>>
  ELSE LET x == CHOOSE v \in lons : TRUE
       IN (x :> distRow(fc, x, Lats)) @@ distRows(fc, lons \ {x})

insideTable ==
  [polygon |-> insideRows("polygon", Lons), holed |-> insideRows("holed", Lons),
   short |-> insideRows("short", Lons), open |-> insideRows("open", Lons)]
distTable ==
  [polygon |-> distRows("polygon", Lons), holed |-> distRows("holed", Lons),
   short |-> distRows("short", Lons), open |-> distRows("open", Lons)]

insidePrimary(pt, fc) == insideTable[fc][pt[1]][pt[2]]
distPrimary(pt, fc) == distTable[fc][pt[1]][pt[2]]

\* ------------------------------------------------------------- demo sampler
\* suitableRegions: the catalog indices whose tag agrees with wantInside
RECURSIVE FilterIdx(_, _)
FilterIdx(i, wantInside) ==
  IF i > Len(oceanRegions) THEN <<>>
  ELSE (IF oceanRegions[i].insideEEZ = wantInside THEN <<i>> ELSE <<>>)
         \o FilterIdx(i + 1, wantInside)

\* a filter with the two branches of the conditional swapped
suitableRegions_swapped(wantInside) == FilterIdx(1, ~wantInside)

suitableRegions(wantInside) == FilterIdx(1, wantInside)

\* randomInBBox with Math.random() = kx/PointDen and ky/PointDen
randomInBBox(bbox, kx, ky) ==
  [lon |-> Deg(bbox[1]) + kx * (bbox[3] - bbox[1]),
   lat |-> Deg(bbox[2]) + ky * (bbox[4] - bbox[2])]

\* a verification that forgets the second test
sampleAccepted_unchecked(wantInside, inside) ==
  (wantInside /\ inside) \/ ~wantInside

\* the verification of the sampled point against the loaded boundary
sampleAccepted(wantInside, inside) ==
  (wantInside /\ inside) \/ (~wantInside /\ ~inside)

\* a sampler with no fallback return: a rejected sample yields no point
getRandomDemoLocation_noFallback(fc, c, j, kx, ky) ==
  LET wantInside == 2 * c < ChoiceDen
      suitable == suitableRegions(wantInside)
      region == suitable[((j * Len(suitable)) \div ChoiceDen) + 1]
      p == randomInBBox(oceanRegions[region].bbox, kx, ky)
      ok == ~BoundaryLoaded(fc)
              \/ sampleAccepted(wantInside, insidePrimary(<<p.lon, p.lat>>, fc))
  IN [lon |-> IF ok THEN p.lon ELSE NULL, lat |-> IF ok THEN p.lat ELSE NULL,
      wantInside |-> wantInside, region |-> region, fallback |-> ~ok]

\* getRandomDemoLocation with the four Math.random() results c/ChoiceDen,
\* j/ChoiceDen, kx/PointDen, ky/PointDen; besides the point it returns, the
\* record tells what the call drew and which return statement it left by.
getRandomDemoLocation(fc, c, j, kx, ky) ==
  LET wantInside == 2 * c < ChoiceDen
      suitable == suitableRegions(wantInside)
      idx == (j * Len(suitable)) \div ChoiceDen
      region == IF Len(suitable) > 0 THEN suitable[idx + 1] ELSE 0
      p == randomInBBox(oceanRegions[region].bbox, kx, ky)
      checked == BoundaryLoaded(fc)
      inside == insidePrimary(<<p.lon, p.lat>>, fc)
      out(q, fb) == [lon |-> q[1], lat |-> q[2], wantInside |-> wantInside,
                     region |-> region, fallback |-> fb]
  IN IF Len(suitable) > 0
     THEN IF checked
          THEN IF sampleAccepted(wantInside, inside)
               THEN out(<<p.lon, p.lat>>, FALSE)
               ELSE out(fallbackPoint, TRUE)
          ELSE out(<<p.lon, p.lat>>, FALSE)
     ELSE out(fallbackPoint, TRUE)

\* the Math.random() results of one call, and what the call returns for each
Draws ==
  (0..(ChoiceDen - 1)) \X (0..(ChoiceDen - 1)) \X (0..(PointDen - 1)) \X (0..(PointDen - 1))
demoTable ==
  [fc \in {EezNull} \cup EezDocuments \cup MalformedDocuments |->
     { getRandomDemoLocation(fc, d[1], d[2], d[3], d[4]) : d \in Draws }]

\* ------------------------------------------------------------- state
VARIABLES
  mounted,        \* the component is mounted (the EEZ effect is not cancelled)
  eezFetch,       \* the fetch of the EEZ effect: "pending", "done", "failed", "cancelled"
  eezData,        \* useState(null)
  pos,            \* useState({lat: null, lon: null})
  safety,         \* useState({label: 'Loading location...', cls: 'warn'})
  alertMsg,       \* useState(null)
  distToCoast,    \* useState(null)
  isDemoMode,     \* useState(false)
  styleReady,     \* the map's style has loaded ('style.load' has fired)
  mapLoaded,      \* the map's 'load' event has fired
  boat,           \* data of the map's 'boat' source, <<>> while there is none
  boatColor,      \* 'circle-color' of the 'boat' layer
  marineDebounce, \* marineDebounceRef.current: <<>> or the <<lat, lon>> of the armed timer
  marineTimers,   \* the setTimeout timers not yet fired or cleared, with their age in ticks
  marineInflight, \* the getMarine requests awaited by a timer callback
  marineIssued,   \* how many requests the timer callbacks have started
  marineAnswer,   \* what the latest request started has set, <<"none">> before it completes
  marineData,     \* useState(null), <<>> for null
  marineLoading,  \* useState(false)
  mapStyle,       \* useState('standard')
  hasGeo,         \* navigator.geolocation exists
  geoLoad,        \* getCurrentPosition calls of the 'load' handler not yet answered
  geoButton,      \* the same for "Use My Location", per eezData of the render clicked in
  last            \* what the most recent updatePosition call was given and saw

\* the state only the timer callbacks write
marineNet == << marineInflight, marineIssued, marineAnswer, marineData >>

vars == << mounted, eezFetch, eezData, pos, safety, alertMsg, distToCoast,
           isDemoMode, styleReady, mapLoaded, boat, boatColor, marineDebounce,
           marineTimers, marineNet, marineLoading, mapStyle, hasGeo, geoLoad,
           geoButton, last >>

\* "Use My Location" requests that may be unanswered at one time
MaxGeoButton == 1

Closures == {EezNull} \cup EezDocuments

RECURSIVE SumOver(_, _)
SumOver(f, S) ==
  IF S = {} THEN 0
  ELSE LET x == CHOOSE y \in S : TRUE IN f[x] + SumOver(f, S \ {x})
PendingButton(f) == SumOver(f, DOMAIN f)

\* no request has completed since the latest one was started
NoAnswer == << "none" >>

NoUpdate ==
  [src |-> "none", avail |-> FALSE, seen |-> FALSE, valid |-> FALSE,
   wantInside |-> FALSE, region |-> 0, fallback |-> FALSE, prevCls |-> "warn"]

Init ==
  /\ mounted = TRUE
  /\ eezFetch = "pending"
  /\ eezData = EezNull
  /\ pos = InitPos
  /\ safety = InitSafety
  /\ alertMsg = NoAlert
  /\ distToCoast = NULL
  /\ isDemoMode = FALSE
  /\ styleReady = FALSE
  /\ mapLoaded = FALSE
  /\ boat = <<>>
  /\ boatColor = "#FFD400"
  /\ marineDebounce = <<>>
  /\ marineTimers = {}
  /\ marineInflight = {}
  /\ marineIssued = 0
  /\ marineAnswer = NoAnswer
  /\ marineData = <<>>
  /\ marineLoading = FALSE
  /\ mapStyle = "standard"
  /\ hasGeo \in BOOLEAN
  /\ geoLoad = 0
  /\ geoButton = [c \in Closures |-> 0]
  /\ last = NoUpdate

\* a state setter of an unmounted component changes nothing
St(cur, new) == IF mounted THEN new ELSE cur

\* ------------------------------------------------------------- updatePosition
\* "not assigned by this call"
Keep == "keep"

LabelOutside == "Outside Indian EEZ! Alert Coast Guard"
LabelInside == "Inside Indian EEZ (Safe)"
LabelNotLoaded == "EEZ data not loaded"

\* the three branches of updateSafety
WhenNotLoaded ==
  [set |-> TRUE, safety |-> [label |-> LabelNotLoaded, cls |-> "warn"],
   alert |-> Keep, color |-> Keep]
WhenOutside ==
  [set |-> TRUE, safety |-> [label |-> LabelOutside, cls |-> "danger"],
   alert |-> LabelOutside, color |-> IF boat # <<>> THEN "#FF0000" ELSE Keep]
WhenInside ==
  [set |-> TRUE, safety |-> [label |-> LabelInside, cls |-> "safe"],
   alert |-> NoAlert, color |-> IF boat # <<>> THEN "#FFD400" ELSE Keep]
WhenThrown ==
  [set |-> FALSE, safety |-> InitSafety, alert |-> Keep, color |-> Keep]

\* an updateSafety that shows "safe" while the boundary is not loaded
updateSafety_defaultSafe(seen, lon, lat) ==
  IF ~BoundaryLoaded(seen) THEN [WhenInside EXCEPT !.alert = Keep]
  ELSE IF ~ValidPoint(lon, lat) THEN WhenThrown
  ELSE IF ~insidePrimary(<<lon, lat>>, seen) THEN WhenOutside
  ELSE WhenInside

\* an updateSafety that toggles the alert on every Outside classification
updateSafety_toggle(seen, lon, lat) ==
  IF ~BoundaryLoaded(seen) THEN WhenNotLoaded
  ELSE IF ~ValidPoint(lon, lat) THEN WhenThrown
  ELSE IF ~insidePrimary(<<lon, lat>>, seen)
  THEN [WhenOutside EXCEPT !.alert = IF alertMsg = NoAlert THEN LabelOutside ELSE NoAlert]
  ELSE WhenInside

\* an updateSafety whose Inside branch leaves the alert alone
updateSafety_keepAlert(seen, lon, lat) ==
  IF ~BoundaryLoaded(seen) THEN WhenNotLoaded
  ELSE IF ~ValidPoint(lon, lat) THEN WhenThrown
  ELSE IF ~insidePrimary(<<lon, lat>>, seen) THEN WhenOutside
  ELSE [WhenInside EXCEPT !.alert = Keep]

\* updateSafety(lon, lat) run in a render that saw eezData = seen: what it
\* passes to setSafety, setAlertMsg and setPaintProperty.  set = FALSE when
\* turf.point threw before any setter ran.
updateSafety(seen, lon, lat) ==
  IF ~BoundaryLoaded(seen) THEN WhenNotLoaded
  ELSE IF ~ValidPoint(lon, lat) THEN WhenThrown
  ELSE IF ~insidePrimary(<<lon, lat>>, seen) THEN WhenOutside
  ELSE WhenInside

\* an updateDistanceToEEZ that gives a distance only to a point inside
updateDistanceToEEZ_insideOnly(seen, lon, lat) ==
  IF ~ValidPoint(lon, lat) THEN [set |-> FALSE, value |-> NULL]
  ELSE IF ~BoundaryLoaded(seen) THEN [set |-> TRUE, value |-> NULL]
  ELSE [set |-> TRUE,
        value |-> IF insidePrimary(<<lon, lat>>, seen)
                  THEN distPrimary(<<lon, lat>>, seen) ELSE NULL]

\* updateDistanceToEEZ(lon, lat) in the same render: what it passes to
\* setDistToCoast; set = FALSE when turf.point threw first.  The value stands
\* for distKm.toFixed(2): a non-null string for every distance, "0.00" included
updateDistanceToEEZ(seen, lon, lat) ==
  IF ~ValidPoint(lon, lat) THEN [set |-> FALSE, value |-> NULL]
  ELSE IF ~BoundaryLoaded(seen) THEN [set |-> TRUE, value |-> NULL]
  ELSE [set |-> TRUE, value |-> distPrimary(<<lon, lat>>, seen)]

\* a refreshMarineData that arms the new timer without clearing the old one
refreshMarineData_noClear(timers, ref, lat, lon) ==
  timers \cup { [lat |-> lat, lon |-> lon, age |-> 0] }

\* refreshMarineData(lat, lon): clearTimeout of the timer the ref names (a
\* fired or cleared one is no longer in the set), then setTimeout(..., 600)
refreshMarineData(timers, ref, lat, lon) ==
  { t \in timers : <<t.lat, t.lon>> # ref }
    \cup { [lat |-> lat, lon |-> lon, age |-> 0] }

\* updatePosition(lon, lat) of a render that saw eezData = seen.  With a boat
\* source, turf.point([lon, lat]) throws on a non-number and ends the call
\* after setPos; otherwise refreshMarineData re-arms the timer, and
\* updateSafety and updateDistanceToEEZ run (the second only if the first
\* did not throw).
updatePosition(seen, lon, lat, info) ==
  LET valid == ValidPoint(lon, lat)
      threwAtBoat == boat # <<>> /\ ~valid
      s == updateSafety(seen, lon, lat)
      d == updateDistanceToEEZ(seen, lon, lat)
  IN /\ pos' = St(pos, [lon |-> lon, lat |-> lat])
     /\ boat' = IF boat # <<>> /\ valid THEN <<lon, lat>> ELSE boat
     /\ last' = St(last, [info EXCEPT !.avail = BoundaryLoaded(eezData),
                                      !.seen = BoundaryLoaded(seen),
                                      !.valid = valid,
                                      !.prevCls = safety.cls])
     /\ IF threwAtBoat
        THEN UNCHANGED << marineDebounce, marineTimers, marineLoading, safety,
                          alertMsg, boatColor, distToCoast >>
        ELSE /\ marineDebounce' = <<lat, lon>>
             /\ marineTimers' = refreshMarineData(marineTimers, marineDebounce, lat, lon)
             /\ marineLoading' = St(marineLoading, TRUE)
             /\ safety' = IF s.set THEN St(safety, s.safety) ELSE safety
             /\ alertMsg' = IF s.alert # Keep THEN St(alertMsg, s.alert) ELSE alertMsg
             /\ boatColor' = IF s.color # Keep THEN s.color ELSE boatColor
             /\ distToCoast' = IF s.set /\ d.set THEN St(distToCoast, d.value)
                               ELSE distToCoast

From(src) == [NoUpdate EXCEPT !.src = src]

\* ------------------------------------------------------------- actions
\* 'style.load': addLayers adds the boat source and layer (pos is the first
\* render's, so the marker starts at centerDefault)
StyleLoad ==
  /\ ~styleReady
  /\ styleReady' = TRUE
  /\ boat' = centerDefault
  /\ boatColor' = "#FFD400"
  /\ UNCHANGED << marineNet, mapStyle >>
  /\ UNCHANGED << mounted, eezFetch, eezData, pos, safety, alertMsg, distToCoast,
                  isDemoMode, mapLoaded, marineDebounce, marineTimers, marineLoading, hasGeo,
                  geoLoad, geoButton, last >>

\* 'load': asks for the position, or without geolocation support updates to
\* centerDefault; the handler belongs to the first render (eezData = null)
MapLoad ==
  /\ styleReady /\ ~mapLoaded
  /\ mapLoaded' = TRUE
  /\ IF hasGeo
     THEN /\ geoLoad' = geoLoad + 1
          /\ UNCHANGED << pos, safety, alertMsg, distToCoast, boat, boatColor,
                          marineDebounce, marineTimers, marineLoading, last >>
     ELSE /\ updatePosition(EezNull, centerDefault[1], centerDefault[2], From("load"))
          /\ UNCHANGED geoLoad
  /\ UNCHANGED << marineNet, mapStyle >>
  /\ UNCHANGED << mounted, eezFetch, eezData, isDemoMode, styleReady, hasGeo, geoButton >>

\* success callback of the 'load' handler's getCurrentPosition
GeoLoadSuccess(p) ==
  /\ geoLoad > 0
  /\ geoLoad' = geoLoad - 1
  /\ isDemoMode' = St(isDemoMode, FALSE)
  /\ updatePosition(EezNull, p[1], p[2], From("load"))
  /\ UNCHANGED << marineNet, mapStyle >>
  /\ UNCHANGED << mounted, eezFetch, eezData, styleReady, mapLoaded, hasGeo, geoButton >>

\* error callback of the 'load' handler's getCurrentPosition
GeoLoadError ==
  /\ geoLoad > 0
  /\ geoLoad' = geoLoad - 1
  /\ isDemoMode' = St(isDemoMode, TRUE)
  /\ updatePosition(EezNull, centerDefault[1], centerDefault[2], From("load"))
  /\ UNCHANGED << marineNet, mapStyle >>
  /\ UNCHANGED << mounted, eezFetch, eezData, styleReady, mapLoaded, hasGeo, geoButton >>

\* "Use My Location" clicked: the callbacks close over the current render
\* (without navigator.geolocation the handler only shows a dialog)
UseMyLocation ==
  /\ mounted /\ hasGeo
  /\ PendingButton(geoButton) < MaxGeoButton
  /\ geoButton' = [geoButton EXCEPT ![eezData] = @ + 1]
  /\ UNCHANGED << marineNet, mapStyle >>
  /\ UNCHANGED << mounted, eezFetch, eezData, pos, safety, alertMsg, distToCoast,
                  isDemoMode, styleReady, mapLoaded, boat, boatColor,
                  marineDebounce, marineTimers, marineLoading, hasGeo, geoLoad, last >>

\* its success callback
GeoButtonSuccess(c, p) ==
  /\ geoButton[c] > 0
  /\ geoButton' = [geoButton EXCEPT ![c] = @ - 1]
  /\ isDemoMode' = St(isDemoMode, FALSE)
  /\ updatePosition(c, p[1], p[2], From("sensor"))
  /\ UNCHANGED << marineNet, mapStyle >>
  /\ UNCHANGED << mounted, eezFetch, eezData, styleReady, mapLoaded, hasGeo, geoLoad >>

\* its error callback only shows a dialog
GeoButtonError(c) ==
  /\ geoButton[c] > 0
  /\ geoButton' = [geoButton EXCEPT ![c] = @ - 1]
  /\ UNCHANGED << marineNet, mapStyle >>
  /\ UNCHANGED << mounted, eezFetch, eezData, pos, safety, alertMsg, distToCoast,
                  isDemoMode, styleReady, mapLoaded, boat, boatColor,
                  marineDebounce, marineTimers, marineLoading, hasGeo, geoLoad, last >>

\* a fetch continuation that does not test cancelled
EezFetchDone_uncancelled(doc) ==
  /\ eezFetch = "pending"
  /\ eezData' = doc
  /\ eezFetch' = "done"
  /\ UNCHANGED << marineNet, mapStyle >>
  /\ UNCHANGED << mounted, pos, safety, alertMsg, distToCoast, isDemoMode,
                  styleReady, mapLoaded, boat, boatColor, marineDebounce, marineTimers,
                  marineLoading, hasGeo, geoLoad, geoButton, last >>

\* the EEZ effect's fetch resolves with a parsed document
EezFetchDone(doc) ==
  /\ eezFetch = "pending"
  /\ IF mounted
     THEN eezData' = doc /\ eezFetch' = "done"
     ELSE eezData' = eezData /\ eezFetch' = "cancelled"
  /\ UNCHANGED << marineNet, mapStyle >>
  /\ UNCHANGED << mounted, pos, safety, alertMsg, distToCoast, isDemoMode,
                  styleReady, mapLoaded, boat, boatColor, marineDebounce, marineTimers,
                  marineLoading, hasGeo, geoLoad, geoButton, last >>

\* fetch or res.json() rejects: the catch block ignores it
EezFetchFail ==
  /\ eezFetch = "pending"
  /\ eezFetch' = "failed"
  /\ UNCHANGED << marineNet, mapStyle >>
  /\ UNCHANGED << mounted, eezData, pos, safety, alertMsg, distToCoast, isDemoMode,
                  styleReady, mapLoaded, boat, boatColor, marineDebounce, marineTimers,
                  marineLoading, hasGeo, geoLoad, geoButton, last >>

\* the component unmounts: the effect's cleanup sets cancelled
Unmount ==
  /\ mounted
  /\ mounted' = FALSE
  /\ UNCHANGED << marineNet, mapStyle >>
  /\ UNCHANGED << eezFetch, eezData, pos, safety, alertMsg, distToCoast, isDemoMode,
                  styleReady, mapLoaded, boat, boatColor, marineDebounce, marineTimers,
                  marineLoading, hasGeo, geoLoad, geoButton, last >>

\* onChange of the latitude input (a value that parses to NaN is ignored)
ManualLat(v) ==
  /\ mounted
  /\ v # NaN
  /\ updatePosition(eezData, pos.lon, v, From("manual"))
  /\ UNCHANGED << marineNet, mapStyle >>
  /\ UNCHANGED << mounted, eezFetch, eezData, isDemoMode, styleReady, mapLoaded,
                  hasGeo, geoLoad, geoButton >>

\* onChange of the longitude input (a value that parses to NaN is ignored)
ManualLon(v) ==
  /\ mounted
  /\ v # NaN
  /\ updatePosition(eezData, v, pos.lat, From("manual"))
  /\ UNCHANGED << marineNet, mapStyle >>
  /\ UNCHANGED << mounted, eezFetch, eezData, isDemoMode, styleReady, mapLoaded,
                  hasGeo, geoLoad, geoButton >>

\* "Reset View"
ResetView ==
  /\ mounted
  /\ updatePosition(eezData, centerDefault[1], centerDefault[2], From("reset"))
  /\ UNCHANGED << marineNet, mapStyle >>
  /\ UNCHANGED << mounted, eezFetch, eezData, isDemoMode, styleReady, mapLoaded,
                  hasGeo, geoLoad, geoButton >>

\* "Random Demo Location": p is what getRandomDemoLocation() returns in the
\* current render for some Math.random() results
DemoLocation(p) ==
  /\ mounted
  /\ isDemoMode' = TRUE
  /\ updatePosition(eezData, p.lon, p.lat,
                    [From("demo") EXCEPT !.wantInside = p.wantInside,
                                         !.region = p.region,
                                         !.fallback = p.fallback])
  /\ UNCHANGED << marineNet, mapStyle >>
  /\ UNCHANGED << mounted, eezFetch, eezData, styleReady, mapLoaded, hasGeo,
                  geoLoad, geoButton >>

Next ==
  \/ StyleLoad
  \/ MapLoad
  \/ \E p \in GeoPoints : GeoLoadSuccess(p)
  \/ GeoLoadError
  \/ UseMyLocation
  \/ \E c \in Closures, p \in GeoPoints : GeoButtonSuccess(c, p)
  \/ \E c \in Closures : GeoButtonError(c)
  \/ \E doc \in EezDocuments : EezFetchDone(doc)
  \/ EezFetchFail
  \/ Unmount
  \/ \E v \in ManualLats : ManualLat(v)
  \/ \E v \in ManualLons : ManualLon(v)
  \/ ResetView
  \/ \E p \in demoTable[eezData] : DemoLocation(p)

Spec == Init /\ [][Next]_vars

\* ------------------------------------------------------------- marine fetch
\* time passes: every pending timer gets one tick older (600 ms are
\* DebounceTicks ticks; a timer that has them may fire)
MarineTick ==
  /\ \E t \in marineTimers : t.age < DebounceTicks
  /\ marineTimers' = { [t EXCEPT !.age = Min(@ + 1, DebounceTicks)] : t \in marineTimers }
  /\ UNCHANGED marineNet
  /\ UNCHANGED marineLoading
  /\ UNCHANGED << mounted, eezFetch, eezData, pos, safety, alertMsg, distToCoast,
                  isDemoMode, styleReady, mapLoaded, boat, boatColor, marineDebounce,
                  mapStyle, hasGeo, geoLoad, geoButton, last >>

\* the callback of a timer whose 600 ms are over runs up to its await:
\* getMarine(lat, lon) sends the request
MarineTimerFire(t) ==
  /\ t \in marineTimers
  /\ t.age >= DebounceTicks
  /\ marineIssued < MaxMarineRequests
  /\ marineTimers' = marineTimers \ {t}
  /\ marineIssued' = marineIssued + 1
  /\ marineInflight' = marineInflight
                         \cup { [id |-> marineIssued + 1, lat |-> t.lat, lon |-> t.lon] }
  /\ marineAnswer' = NoAnswer
  /\ UNCHANGED << marineData, marineLoading >>
  /\ UNCHANGED << mounted, eezFetch, eezData, pos, safety, alertMsg, distToCoast,
                  isDemoMode, styleReady, mapLoaded, boat, boatColor, marineDebounce,
                  mapStyle, hasGeo, geoLoad, geoButton, last >>

\* the request resolves: setMarineData(marine), finally setMarineLoading(false).
\* The response is the service's data for the request's (lat, lon).
MarineResponse(r) ==
  /\ r \in marineInflight
  /\ marineInflight' = marineInflight \ {r}
  /\ marineData' = St(marineData, <<r.lat, r.lon>>)
  /\ marineLoading' = St(marineLoading, FALSE)
  /\ marineAnswer' = IF r.id = marineIssued THEN <<r.lat, r.lon>> ELSE marineAnswer
  /\ UNCHANGED << marineTimers, marineIssued >>
  /\ UNCHANGED << mounted, eezFetch, eezData, pos, safety, alertMsg, distToCoast,
                  isDemoMode, styleReady, mapLoaded, boat, boatColor, marineDebounce,
                  mapStyle, hasGeo, geoLoad, geoButton, last >>

\* the request rejects: setMarineData(null), finally setMarineLoading(false)
MarineError(r) ==
  /\ r \in marineInflight
  /\ marineInflight' = marineInflight \ {r}
  /\ marineData' = St(marineData, <<>>)
  /\ marineLoading' = St(marineLoading, FALSE)
  /\ marineAnswer' = IF r.id = marineIssued THEN <<>> ELSE marineAnswer
  /\ UNCHANGED << marineTimers, marineIssued >>
  /\ UNCHANGED << mounted, eezFetch, eezData, pos, safety, alertMsg, distToCoast,
                  isDemoMode, styleReady, mapLoaded, boat, boatColor, marineDebounce,
                  mapStyle, hasGeo, geoLoad, geoButton, last >>

\* position updates by the inputs and "Reset View", with the timer and the
\* requests of refreshMarineData
NextMarine ==
  \/ StyleLoad
  \/ Unmount
  \/ \E v \in ManualLats : ManualLat(v)
  \/ \E v \in ManualLons : ManualLon(v)
  \/ ResetView
  \/ MarineTick
  \/ \E t \in marineTimers : MarineTimerFire(t)
  \/ \E r \in marineInflight : MarineResponse(r)
  \/ \E r \in marineInflight : MarineError(r)

SpecMarine == Init /\ [][NextMarine]_vars

\* ------------------------------------------------------------- malformed boundary
\* the fetch resolves with a document whose ring is short or unclosed
NextMalformed ==
  \/ StyleLoad
  \/ \E doc \in MalformedDocuments : EezFetchDone(doc)
  \/ Unmount
  \/ \E v \in ManualLats : ManualLat(v)
  \/ \E v \in ManualLons : ManualLon(v)
  \/ ResetView
  \/ \E p \in demoTable[eezData] : DemoLocation(p)

SpecMalformed == Init /\ [][NextMalformed]_vars

\* ------------------------------------------------------------- map style
MapStyleKeys == { "standard", "satellite", "infrared" }

\* onChange of the style select: setMapStyle(styleKey), map.setStyle(url).
\* The map keeps the old style, or has dropped it with the 'boat' source
\* (gone), until the new one is loaded and 'style.load' fires.
onMapStyleChange(styleKey, gone) ==
  /\ mounted
  /\ styleKey # mapStyle
  /\ mapStyle' = styleKey
  /\ styleReady' = FALSE
  /\ boat' = IF gone THEN <<>> ELSE boat
  /\ UNCHANGED marineNet
  /\ UNCHANGED << mounted, eezFetch, eezData, pos, safety, alertMsg, distToCoast,
                  isDemoMode, mapLoaded, boatColor, marineDebounce, marineTimers,
                  marineLoading, hasGeo, geoLoad, geoButton, last >>

\* position updates and style changes of a map whose boundary never loads
NextStyle ==
  \/ StyleLoad
  \/ MapLoad
  \/ \E p \in GeoPoints : GeoLoadSuccess(p)
  \/ GeoLoadError
  \/ \E k \in MapStyleKeys, gone \in BOOLEAN : onMapStyleChange(k, gone)
  \/ Unmount
  \/ \E v \in ManualLats : ManualLat(v)
  \/ \E v \in ManualLons : ManualLon(v)
  \/ ResetView

SpecStyle == Init /\ [][NextStyle]_vars

\* ------------------------------------------------------------- properties
\* the position last passed to updatePosition
Here == <<pos.lon, pos.lat>>
\* an updatePosition call has set the state, with numbers for coordinates
Updated == last.src # "none" /\ last.valid
\* the "Emergency: Alert Coast Guard" button is rendered
EmergencyAvailable == safety.cls = "danger" /\ isDemoMode
\* the class updateSafety gives a point against a loaded boundary
ClassOf(pt, fc) == IF insidePrimary(pt, fc) THEN "safe" ELSE "danger"

\* C1: while eezData is null or has no feature, the safety state is Unknown
\* (class 'warn'), whatever position updates have run.
C1_UnknownWhileUnavailable ==
  ~BoundaryLoaded(eezData) => safety.cls = "warn"

C1_Witness ==
  /\ eezData = "empty"
  /\ last.src = "demo"
  /\ safety.label = LabelNotLoaded

\* C2: when the boundary load completes after a position update, the safety
\* state becomes the classification of the current point against the loaded
\* boundary in that same step.
C2_RecomputedOnLoad ==
  [][ (Updated /\ ~BoundaryLoaded(eezData) /\ BoundaryLoaded(eezData'))
        => safety'.cls = ClassOf(<<pos'.lon, pos'.lat>>, eezData') ]_vars

\* C3: a position update executed once the boundary is loaded yields Inside
\* or Outside and a non-null distance, whichever handler made it.
C3_UpdateAfterLoadClassifies ==
  (Updated /\ last.avail)
    => (safety.cls \in {"safe", "danger"} /\ distToCoast # NULL)

\* C4: an update that classifies Outside when the safety state was already
\* Outside changes neither the alert nor the safety state, and whenever the
\* state is Outside the alert is the one raised on entering it.
C4_NoRepeatedAlert ==
  [][ /\ (safety'.cls = "danger" => alertMsg' = LabelOutside)
      /\ (safety.cls = "danger" /\ safety'.cls = "danger")
           => (alertMsg' = alertMsg /\ safety' = safety) ]_vars

C4_Witness ==
  /\ Updated /\ last.seen
  /\ last.prevCls = "danger"
  /\ safety.cls = "danger"
  /\ alertMsg = LabelOutside

\* C5: after a position update that classifies the point Inside the alert
\* message is null, whatever it was before.
C5_InsideClearsAlert ==
  safety.cls = "safe" => alertMsg = NoAlert

C5_Witness ==
  /\ Updated /\ last.seen
  /\ last.prevCls = "danger"
  /\ safety.cls = "safe"
  /\ alertMsg = NoAlert

\* C6 as stated: with a boundary loaded, every point the sampler returns,
\* the fallback coordinate included, is inside the primary boundary exactly
\* when wantInside was drawn.
C6_EveryReturnMatches ==
  (last.src = "demo" /\ last.avail)
    => (insidePrimary(Here, eezData) <=> last.wantInside)

\* C6 amended: with a boundary loaded, every point the sampler returns from
\* its verified sample (not by the fallback return) is inside the primary
\* boundary exactly when wantInside was drawn.
C6_VerifiedReturnMatches ==
  (last.src = "demo" /\ last.avail /\ ~last.fallback)
    => (insidePrimary(Here, eezData) <=> last.wantInside)

C6_Witness ==
  /\ last.src = "demo" /\ last.avail /\ ~last.fallback
  /\ ~last.wantInside
  /\ ~insidePrimary(Here, eezData)

\* C7: every call of the sampler returns a point with two numbers; a call
\* that leaves by the fallback return was made with a boundary loaded and
\* returns (lon 70, lat 15).
C7_SamplerReturnsPoint ==
  last.src = "demo"
    => /\ isNumber(pos.lon) /\ isNumber(pos.lat)
       /\ last.fallback => (last.avail /\ Here = fallbackPoint)

C7_Witness ==
  /\ last.src = "demo"
  /\ last.fallback
  /\ Here = fallbackPoint

\* C8: without a boundary the sampler returns the sampled point itself: it
\* lies in the bounding box of a catalog region tagged with the drawn
\* wantInside, and the call does not leave by the fallback return.
InBBox(pt, bbox) ==
  /\ Deg(bbox[1]) <= pt[1] /\ pt[1] <= Deg(bbox[3])
  /\ Deg(bbox[2]) <= pt[2] /\ pt[2] <= Deg(bbox[4])

C8_UnverifiedSampleInRegion ==
  (last.src = "demo" /\ ~last.avail)
    => /\ ~last.fallback
       /\ \E r \in 1..Len(oceanRegions) :
            /\ oceanRegions[r].insideEEZ = last.wantInside
            /\ InBBox(Here, oceanRegions[r].bbox)

C8_Witness ==
  /\ last.src = "demo" /\ ~last.avail
  /\ eezData = EezNull
  /\ last.wantInside
  /\ InBBox(Here, oceanRegions[last.region].bbox)

\* C9: the emergency alert action is available exactly when the point is
\* classified Outside, from whichever source the position came.
C9_UniformAcrossSources ==
  (Updated /\ last.seen)
    => (EmergencyAvailable <=> safety.cls = "danger")

\* C10: eezData is assigned at most once, with a whole document, by the
\* fetch of a mounted component; it is never reset, and stays null when the
\* fetch failed or resolved after the unmount.
C10_LoadedAtMostOnce ==
  [][ /\ (eezData # EezNull => eezData' = eezData)
      /\ (eezData' # eezData
            => (mounted /\ eezFetch = "pending" /\ eezFetch' = "done"
                  /\ eezData' \in EezDocuments))
      /\ (eezFetch' \in {"failed", "cancelled"} => eezData' = EezNull) ]_vars

C10_Witness ==
  /\ eezFetch = "done"
  /\ eezData \in EezDocuments
  /\ Updated /\ last.avail

\* C11: the distance the distance update stores is the minimum distance to
\* the edges of the outer ring alone, so a hole ring never changes it.
OuterRingDist2(pt, feature) ==
  MinOver({ SegDist2(pt, feature.rings[1][i], feature.rings[1][i + 1]) :
              i \in 1..(Len(feature.rings[1]) - 1) },
          NULL)

C11_DistanceToOuterRingOnly ==
  (Updated /\ last.seen)
    => distToCoast = OuterRingDist2(Here, Features(eezData)[1])

\* C15: an alert message is active exactly when the safety state is Outside.
C15_AlertIffOutside ==
  (alertMsg # NoAlert) <=> (safety.cls = "danger")

\* C16: after a completed position update the distance is null exactly when
\* the safety state is Unknown, and both come from the boundary the call saw:
\* Unknown and null when it saw none, else the class and the distance of the
\* current point against that boundary.
C16_SafetyAndDistanceAgree ==
  Updated
    => /\ (distToCoast = NULL) <=> (safety.cls = "warn")
       /\ (safety.cls = "warn") <=> ~last.seen
       /\ last.seen => /\ safety.cls = ClassOf(Here, eezData)
                       /\ distToCoast = distPrimary(Here, eezData)

C16_Witness ==
  /\ Updated /\ last.seen
  /\ last.prevCls = "warn"
  /\ safety.cls = "danger"
  /\ distToCoast # NULL

\* C12: once no timer is pending and every request started has completed,
\* marineData is what the latest request started has set (its response, or
\* null if it failed), in whatever order the responses arrived.
C12_LastWriteWins ==
  (mounted /\ marineTimers = {} /\ marineInflight = {} /\ marineIssued > 0)
    => marineData = marineAnswer

\* C13: a point classified against a boundary whose ring has fewer than 4
\* positions or is not closed does not get an Inside or Outside safety state.
C13_MalformedRejected ==
  (Updated /\ last.seen /\ eezData \in MalformedDocuments)
    => safety.cls \notin {"safe", "danger"}

\* C14: at most one timer is pending; a position update leaves its own timer
\* as the only one and starts no request; a request is started only by the
\* one pending timer, after its 600 ms, for the arguments of the most recent
\* update.
C14_Debounced ==
  [][ /\ Cardinality(marineTimers') <= 1
      /\ ((\E t \in marineTimers' : t.age = 0) /\ marineTimers' # marineTimers)
           => /\ marineTimers' = { [lat |-> marineDebounce'[1],
                                    lon |-> marineDebounce'[2], age |-> 0] }
              /\ marineIssued' = marineIssued
              /\ marineInflight' = marineInflight
      /\ (marineIssued' # marineIssued)
           => \E t \in marineTimers :
                /\ marineTimers = {t}
                /\ marineTimers' = {}
                /\ t.age >= DebounceTicks
                /\ <<t.lat, t.lon>> = marineDebounce
                /\ marineInflight' = marineInflight
                     \cup { [id |-> marineIssued', lat |-> t.lat, lon |-> t.lon] } ]_vars

C14_Witness ==
  /\ marineIssued = 1
  /\ marineTimers = {}
  /\ marineInflight = { [id |-> 1, lat |-> Deg(15), lon |-> Deg(50)] }
  /\ Here = <<Deg(50), Deg(15)>>

\* C17: while a timer is pending or a request is in flight, marineLoading is
\* true.
C17_LoadingWhileOutstanding ==
  (mounted /\ (marineTimers # {} \/ marineInflight # {})) => marineLoading

\* C18: once the style has loaded, the boat source holds the position last
\* passed to updatePosition.
C18_BoatShowsPosition ==
  (mounted /\ styleReady /\ mapLoaded /\ Updated) => boat = Here

====
